---- MODULE Spec2Model ----
(***************************************************************************)
(* Message Board GraphQL server (server.js): the users and messages        *)
(* tables, the process-wide rateLimitStore and the createUser and          *)
(* postMessage resolvers.  A resolver is an async function: it runs        *)
(* synchronously up to each await on the store and is resumed later, so    *)
(* every resolver is split into one action per synchronous segment and     *)
(* one per statement executed by the store.                                *)
(*                                                                         *)
(* Random-integer generator (generator.js with random.js): the promises    *)
(* of getRandomInteger, their timers, the microtask queue and the two      *)
(* Promise.allSettled chains.  One action per timer callback and per       *)
(* microtask.                                                              *)
(***************************************************************************)
EXTENDS Integers, Sequences, FiniteSets, TLC

\* ------------------------------------------------------------- bounds
\* Request slots that may be in flight at once.
NumReqs == 2
\* Calls issued with concurrent requests.
MaxCalls == 4
\* Calls issued, and the last millisecond the clock reaches, when requests are
\* issued one at a time.
MaxSeqCreates == 2
MaxSeqPosts == 3
MaxSeqMs == 2
\* Rate-limit scenarios: postMessage calls issued one at a time and the hours the
\* clock spans; postMessage calls issued beyond the limit with requests in flight
\* and the last millisecond the clock reaches then.
MaxRatePosts == 12
MaxHours == 1
MaxRacePosts == 2
MaxMs == 1
\* Calls issued one at a time by a client that repeats the calls that failed.
MaxRetryCreates == 3
MaxRetryPosts == 14
\* Responses that client remembers.
MaxRetryKept == 2
\* Promises the generator script creates (the script's loop runs 20 times).
NumPromises == 3

\* ---------------------------------------------------- program constants
\* const oneHourAgo = now - (60 * 60 * 1000)
WindowMs == 3600000
\* if (recentTimestamps.length >= 10)
RateLimit == 10

DuplicateEmailMessage == "A user with this email already exists."
UserNotFoundMessage == "User not found. Cannot post message."
RateLimitMessage == "Rate limit exceeded. You can post a maximum of 10 messages per hour."
\* What the store rejects an INSERT with when users.email UNIQUE is violated.
SqliteConstraintMessage == "SQLITE_CONSTRAINT: UNIQUE constraint failed: users.email"

VARIABLES
    users,           \* rows of table users, in rowid (insertion) order
    messages,        \* rows of table messages, in rowid (insertion) order
    rateLimitStore,  \* the Map userId -> array of Date.now() values
    clock,           \* the wall clock when it was last read, in milliseconds
    nextId,          \* source of uuidv4(): every value is drawn once
    req,             \* the resolver invocations in flight, one per slot
    calls,           \* how many createUser and postMessage calls were issued
    log,             \* the responses sent, in the order they were sent (the
                     \* most recent ones: as many as the scenario keeps)
    timers,          \* generator: the promises whose setTimeout has not fired
    promises,        \* generator: the state of each promise of `promises`
    microtasks,      \* generator: the promise jobs queued, oldest first
    allSettled,      \* generator: per Promise.allSettled call, the values
                     \* collected and the elements still awaited
    results,         \* generator: the array results
    errors,          \* generator: the array errors
    console          \* generator: the lines written to the console

server == <<users, messages, rateLimitStore, clock, nextId, req, calls, log>>
generator == <<timers, promises, microtasks, allSettled, results, errors, console>>
vars == <<users, messages, rateLimitStore, clock, nextId, req, calls, log,
          timers, promises, microtasks, allSettled, results, errors, console>>

Reqs == 1..NumReqs

\* ------------------------------------------------------------- the clock
\* The instants at which the rate-limit scenarios sample the clock: each hour
\* boundary and the millisecond on either side of it.
Instants ==
    { t \in { h * WindowMs + d : h \in 0..MaxHours, d \in {0 - 1, 0, 1} } : t >= 0 }

\* new Date().toISOString(): "YYYY-MM-DDTHH:mm:ss.sssZ", every field zero-padded to
\* a fixed width; kept as the tuple of its fields (all instants fall on 1970-01-01).
ToISOString(ms) ==
    << 1970, 1, 1,
       (ms \div 3600000) % 24,
       (ms \div 60000) % 60,
       (ms \div 1000) % 60,
       ms % 1000 >>

\* TEXT comparison of two ISO strings: the fields are fixed-width, so the strings
\* compare as their field tuples do, left to right.
RECURSIVE TextLessFrom(_, _, _)
TextLessFrom(a, b, i) ==
    IF i > Len(a) \/ i > Len(b) THEN Len(a) < Len(b)
    ELSE IF a[i] # b[i] THEN a[i] < b[i]
    ELSE TextLessFrom(a, b, i + 1)

TextLess(a, b) == TextLessFrom(a, b, 1)

\* ------------------------------------------------------------- the store
\* SELECT id FROM users WHERE email = ?
UserByEmail(email) == { i \in 1..Len(users) : users[i].email = email }

\* SELECT id FROM users WHERE id = ?
UserById(id) == { i \in 1..Len(users) : users[i].id = id }

\* A lookup whose result is used without being awaited: a promise, never undefined.
FindPending(key) == TRUE

\* A lookup that matches no row.
FindNothing(key) == FALSE

\* const existingUser = await db.get('SELECT id FROM users WHERE email = ?', email)
FindUserByEmail(email) == UserByEmail(email) # {}

\* The SELECT without its WHERE id = ?: any row of users is a match.
FindAnyUser(userId) == users # <<>>

\* const user = await db.get('SELECT id FROM users WHERE id = ?', userId)
FindUserById(userId) == UserById(userId) # {}

\* rateLimitStore.get(userId) || []
RateGet(userId) ==
    IF userId \in DOMAIN rateLimitStore THEN rateLimitStore[userId] ELSE <<>>

\* The Map is replaced by one that holds the entry of userId alone.
RateSetAlone(userId, value) == [ k \in {userId} |-> value ]

\* rateLimitStore.set(userId, value)
RateSet(userId, value) ==
    [ k \in (DOMAIN rateLimitStore) \cup {userId} |->
        IF k = userId THEN value ELSE rateLimitStore[k] ]

IsRecentInclusive(ts, oneHourAgo) == ts >= oneHourAgo

\* A window that is one millisecond shorter than the hour.
IsRecentShort(ts, oneHourAgo) == ts > oneHourAgo + 1

\* ts => ts > oneHourAgo
IsRecent(ts, oneHourAgo) == ts > oneHourAgo

\* userTimestamps.filter(ts => ts > oneHourAgo)
RECURSIVE FilterRecent(_, _)
FilterRecent(ts, oneHourAgo) ==
    IF ts = <<>> THEN <<>>
    ELSE IF IsRecent(Head(ts), oneHourAgo)
         THEN <<Head(ts)>> \o FilterRecent(Tail(ts), oneHourAgo)
         ELSE FilterRecent(Tail(ts), oneHourAgo)

LimitReachedOffByOne(recentTimestamps) == Len(recentTimestamps) > RateLimit

\* recentTimestamps.length >= 10
LimitReached(recentTimestamps) == Len(recentTimestamps) >= RateLimit

\* The denied attempt is recorded like an admitted one.
RateAfterDeniedRecorded(userId, recentTimestamps, now) ==
    RateSet(userId, Append(recentTimestamps, now))

\* The Map after a call was denied: the resolver throws before it reaches
\* rateLimitStore.set, and filter() built a new array, so the Map and the array
\* it holds for userId are as they were.
RateAfterDenied(userId, recentTimestamps, now) == rateLimitStore

\* A table users declared without its constraints rejects no row.
InsertUserUnconstrained(row) == FALSE

\* The constraints of table users that reject an INSERT of `row`:
\* id TEXT PRIMARY KEY, email TEXT NOT NULL UNIQUE.
InsertUserRejected(row) == UserByEmail(row.email) # {} \/ UserById(row.id) # {}

\* The row is put before the others.
UsersAfterInsertFirst(row) == <<row>> \o users

\* Table users after INSERT INTO users of `row`: the row gets the next rowid.
UsersAfterInsert(row) == Append(users, row)

\* Table messages after INSERT INTO messages of `row`.
MessagesAfterInsert(row) == Append(messages, row)

\* const newUser = { id: uuidv4(), name, email, creationDate: new Date().toISOString() }
NewUser(id, name, email, now) ==
    [ id |-> id, name |-> name, email |-> email, creationDate |-> ToISOString(now) ]

\* const newMessage = { id: uuidv4(), userId, body: messageBody,
\*                      creationDate: new Date().toISOString() }
NewMessage(id, userId, body, now) ==
    [ id |-> id, userId |-> userId, body |-> body, creationDate |-> ToISOString(now) ]

\* ------------------------------------------------------------- queries
\* No row: undefined, null.
NoUser == [id |-> 0, name |-> "", email |-> "", creationDate |-> <<>>]
NoMessage == [id |-> 0, userId |-> 0, body |-> "", creationDate |-> <<>>]

\* listUsers: SELECT * FROM users
ListUsers == users

\* listMessagesForUser, for a persisted user: SELECT * FROM messages WHERE userId = ?
ListMessagesForUser(userId) == SelectSeq(messages, LAMBDA m : m.userId = userId)

\* ORDER BY creationDate ASC over `rows`: every arrangement of the rows in which
\* no row precedes one with a smaller creationDate (the store fixes no order
\* among rows with equal creationDate).
RECURSIVE OrderingsOf(_, _)
OrderingsOf(rows, S) ==
    IF S = {} THEN { <<>> }
    ELSE UNION { { <<rows[i]>> \o rest : rest \in OrderingsOf(rows, S \ {i}) } :
                   i \in { k \in S : \A j \in S :
                             ~TextLess(rows[j].creationDate, rows[k].creationDate) } }

OrderByCreationDate(rows) == OrderingsOf(rows, 1..Len(rows))

\* SELECT * FROM messages ORDER BY creationDate ASC, without its WHERE userId = ?
AllMessagesByDate(userId) == OrderByCreationDate(messages)

\* SELECT * FROM messages WHERE userId = ? ORDER BY creationDate ASC
UserMessagesByDate(userId) == OrderByCreationDate(ListMessagesForUser(userId))

\* userMessages.findIndex(msg => msg.id === message.id): 0-based, -1 when absent.
FindIndex(userMessages, id) ==
    LET hits == { i \in 1..Len(userMessages) : userMessages[i].id = id }
    IN  IF hits = {} THEN 0 - 1
        ELSE (CHOOSE i \in hits : \A j \in hits : i <= j) - 1

\* userMessages[k], 0-based.
At(userMessages, k) == userMessages[k + 1]

\* currentIndex > 0 ? userMessages[currentIndex - 1] : null
PreviousIn(userMessages, id) ==
    LET currentIndex == FindIndex(userMessages, id)
    IN  IF currentIndex > 0 THEN At(userMessages, currentIndex - 1) ELSE NoMessage

\* currentIndex < userMessages.length - 1 ? userMessages[currentIndex + 1] : null
NextIn(userMessages, id) ==
    LET currentIndex == FindIndex(userMessages, id)
    IN  IF currentIndex < Len(userMessages) - 1
        THEN At(userMessages, currentIndex + 1) ELSE NoMessage

\* Message.previousPostedMessage: the values the resolver can return for `message`.
PreviousPostedMessage(message) ==
    { PreviousIn(userMessages, message.id) :
        userMessages \in UserMessagesByDate(message.userId) }

\* Message.nextPostedMessage: the values the resolver can return for `message`.
NextPostedMessage(message) ==
    { NextIn(userMessages, message.id) :
        userMessages \in UserMessagesByDate(message.userId) }

\* ------------------------------------------------------------- requests
Idle ==
    [ op |-> "none", pc |-> "idle", name |-> "", email |-> "", userId |-> 0,
      body |-> "", found |-> FALSE, now |-> 0, recentTimestamps |-> <<>>,
      newUser |-> NoUser, newMessage |-> NoMessage ]


\* The response of a resolver that returned `value`.
Returned(r, value) ==
    [ op |-> req[r].op, name |-> req[r].name, email |-> req[r].email,
      userId |-> req[r].userId, body |-> req[r].body,
      ok |-> TRUE, error |-> "", value |-> value ]

\* The response of a resolver that threw new Error(message).
Threw(r, message) ==
    [ op |-> req[r].op, name |-> req[r].name, email |-> req[r].email,
      userId |-> req[r].userId, body |-> req[r].body,
      ok |-> FALSE, error |-> message, value |-> NoUser ]

\* The response e is sent; the scenario keeps the last `keep` responses.
Respond(e, keep) ==
    LET all == Append(log, e)
    IN  log' = IF Len(all) <= keep THEN all
               ELSE SubSeq(all, Len(all) - keep + 1, Len(all))

\* ----------------------------------------------------------- generator
\* A promise: pending, fulfilled with a value, or rejected with a reason.
Pending == [status |-> "pending", value |-> 0, reason |-> ""]
Fulfilled(value) == [status |-> "fulfilled", value |-> value, reason |-> ""]
Rejected(reason) == [status |-> "rejected", value |-> 0, reason |-> reason]

\* What Math.random() returns, in hundredths.
Randoms == {0, 30, 31, 99}

\* The timer callback that settles nothing when entropy is short.
UrandGenerateSilent(first, second) ==
    IF first <= 30 THEN Pending ELSE Fulfilled(second)

\* urandGenerate's timer callback, with the two values Math.random() returns:
\* if (Math.random() <= 0.3) reject("not enough entropy") else resolve(Math.random())
UrandGenerate(first, second) ==
    IF first <= 30 THEN Rejected("not enough entropy") ELSE Fulfilled(second)

\* Math.floor(f * max), f in hundredths.
MathFloorTimes(f, max) == (f * max) \div 100

\* getRandomInteger(max) after `await urandGenerate()` settled with `outcome`:
\* return Math.floor(f * max), or the rejection thrown by the await.
GetRandomInteger(max, outcome) ==
    IF outcome.status = "fulfilled"
    THEN Fulfilled(MathFloorTimes(outcome.value, max))
    ELSE Rejected(outcome.reason)

\* The aggregate promise is resolved by the first element that settles.
FirstSettled(remaining) == TRUE

\* Promise.allSettled: the aggregate promise is resolved when no element remains.
AllSettled(remaining) == remaining = 0

\* A promise job: the continuation of getRandomInteger `index`, the reaction of
\* Promise.allSettled call `chain` to element `index`, or a callback of a chain.
Job(job, chain, index, outcome) ==
    [job |-> job, chain |-> chain, index |-> index, outcome |-> outcome]

\* data.filter(result => result.status === status)
RECURSIVE FilterStatus(_, _)
FilterStatus(data, status) ==
    IF data = <<>> THEN <<>>
    ELSE IF Head(data).status = status
         THEN <<Head(data)>> \o FilterStatus(Tail(data), status)
         ELSE FilterStatus(Tail(data), status)

\* The values pushed to results and the reasons pushed to errors by data.forEach.
Values(data) ==
    LET F == FilterStatus(data, "fulfilled") IN [i \in 1..Len(F) |-> F[i].value]
Reasons(data) ==
    LET R == SelectSeq(data, LAMBDA d : d.status # "fulfilled")
    IN  [i \in 1..Len(R) |-> R[i].reason]

\* array.sort((a, b) => a - b)
RECURSIVE Insert(_, _)
Insert(sorted, x) ==
    IF sorted = <<>> THEN <<x>>
    ELSE IF x - Head(sorted) < 0 THEN <<x>> \o sorted
         ELSE <<Head(sorted)>> \o Insert(Tail(sorted), x)

RECURSIVE SortAscending(_)
SortAscending(array) ==
    IF array = <<>> THEN <<>>
    ELSE Insert(SortAscending(SubSeq(array, 1, Len(array) - 1)), array[Len(array)])

\* A line written to the console.
Line(text, numbers, count) == [text |-> text, numbers |-> numbers, count |-> count]

\* The script has run to its end: the loop created the promises and armed
\* their timers, and both Promise.allSettled chains are registered.
InitGenerator ==
    /\ timers = 1..NumPromises
    /\ promises = [i \in 1..NumPromises |-> Pending]
    /\ microtasks = <<>>
    /\ allSettled = [chain \in 1..2 |->
                        [data |-> [i \in 1..NumPromises |-> Pending],
                         remaining |-> NumPromises]]
    /\ results = <<>>
    /\ errors = <<>>
    /\ console = <<>>

\* A timer fires (the microtask queue is drained between timer callbacks): the
\* callback settles the promise of urandGenerate, which queues the
\* continuation of the getRandomInteger awaiting it.
TimerFires(i, first, second) ==
    /\ i \in timers
    /\ microtasks = <<>>
    /\ timers' = timers \ {i}
    /\ LET outcome == UrandGenerate(first, second)
       IN  microtasks' = IF outcome.status = "pending" THEN <<>>
                         ELSE <<Job("resume", 0, i, outcome)>>
    /\ UNCHANGED <<promises, allSettled, results, errors, console>>
    /\ UNCHANGED server

\* getRandomInteger resumes after its await and settles its promise, which
\* queues the reactions the two Promise.allSettled calls registered on it.
ResumeGetRandomInteger ==
    /\ microtasks # <<>>
    /\ Head(microtasks).job = "resume"
    /\ LET i == Head(microtasks).index
           settled == GetRandomInteger(100, Head(microtasks).outcome)
       IN  /\ promises' = [promises EXCEPT ![i] = settled]
           /\ microtasks' = Tail(microtasks)
                               \o <<Job("element", 1, i, settled),
                                    Job("element", 2, i, settled)>>
    /\ UNCHANGED <<timers, allSettled, results, errors, console>>
    /\ UNCHANGED server

\* The reaction of a Promise.allSettled call to one element: its result is
\* stored at the element's index, and with the last one the aggregate promise
\* is resolved, which queues the chain's then-callback.
AllSettledElement ==
    /\ microtasks # <<>>
    /\ Head(microtasks).job = "element"
    /\ LET chain == Head(microtasks).chain
           i == Head(microtasks).index
           remaining == allSettled[chain].remaining - 1
       IN  /\ allSettled' = [allSettled EXCEPT
                                ![chain].data[i] = Head(microtasks).outcome,
                                ![chain].remaining = remaining]
           /\ microtasks' = Tail(microtasks)
                               \o IF AllSettled(remaining)
                                  THEN <<Job("then", chain, 0, Pending)>>
                                  ELSE <<>>
    /\ UNCHANGED <<timers, promises, results, errors, console>>
    /\ UNCHANGED server

\* The then-callback of the first chain: data.forEach pushes every value to
\* results and every reason to errors; its promise queues the finally-callback.
ThenCollect ==
    /\ microtasks # <<>>
    /\ Head(microtasks).job = "then"
    /\ Head(microtasks).chain = 1
    /\ results' = results \o Values(allSettled[1].data)
    /\ errors' = errors \o Reasons(allSettled[1].data)
    /\ microtasks' = Tail(microtasks) \o <<Job("finally", 1, 0, Pending)>>
    /\ UNCHANGED <<timers, promises, allSettled, console>>
    /\ UNCHANGED server

\* The finally-callback: results is sorted in place and logged, and the number
\* of errors is logged.
FinallyLog ==
    /\ microtasks # <<>>
    /\ Head(microtasks).job = "finally"
    /\ results' = SortAscending(results)
    /\ console' = console \o <<Line("Generated Numbers:", results', 0),
                                Line("Failed Attempts:", <<>>, Len(errors))>>
    /\ microtasks' = Tail(microtasks)
    /\ UNCHANGED <<timers, promises, allSettled, errors>>
    /\ UNCHANGED server

\* The then-callback of the second chain: console.assert writes its message
\* when the counts do not add up; its promise queues the catch's pass-through.
ThenAssert ==
    /\ microtasks # <<>>
    /\ Head(microtasks).job = "then"
    /\ Head(microtasks).chain = 2
    /\ LET data == allSettled[2].data
           fulfilledCount == Len(FilterStatus(data, "fulfilled"))
           errorCount == Len(FilterStatus(data, "rejected"))
       IN  console' = IF fulfilledCount + errorCount = Len(promises) THEN console
                      ELSE Append(console, Line("Mismatch in counts", <<>>, 0))
    /\ microtasks' = Tail(microtasks) \o <<Job("catch", 2, 0, Pending)>>
    /\ UNCHANGED <<timers, promises, allSettled, results, errors>>
    /\ UNCHANGED server

\* The catch of the second chain passes a fulfilment through.
CatchPassThrough ==
    /\ microtasks # <<>>
    /\ Head(microtasks).job = "catch"
    /\ microtasks' = Tail(microtasks)
    /\ UNCHANGED <<timers, promises, allSettled, results, errors, console>>
    /\ UNCHANGED server

\* The generator script's event loop.
NextGen ==
    \/ \E i \in 1..NumPromises, first \in Randoms, second \in Randoms :
          TimerFires(i, first, second)
    \/ ResumeGetRandomInteger
    \/ AllSettledElement
    \/ ThenCollect
    \/ FinallyLog
    \/ ThenAssert
    \/ CatchPassThrough

\* ------------------------------------------------------- initial state
Init ==
    /\ users = <<>>
    /\ messages = <<>>
    /\ rateLimitStore = <<>>
    /\ clock = 0
    /\ nextId = 1
    /\ req = [r \in Reqs |-> Idle]
    /\ calls = [createUser |-> 0, postMessage |-> 0]
    /\ log = <<>>
    /\ InitGenerator

\* Date.now(), new Date(): the clock is read and shows `now`, which is not
\* before any instant read earlier.
ReadClock(now) == now >= clock /\ clock' = now

\* ------------------------------------------------------------ createUser
\* createUser is called and the store executes its SELECT ... WHERE email = ?.
CreateUserCall(r, name, email) ==
    /\ req[r].pc = "idle"
    /\ req' = [req EXCEPT ![r] =
                 [Idle EXCEPT !.op = "createUser", !.pc = "cu_selected",
                              !.name = name, !.email = email,
                              !.found = FindUserByEmail(email)]]
    /\ calls' = [calls EXCEPT !.createUser = @ + 1]
    /\ UNCHANGED <<users, messages, rateLimitStore, clock, nextId, log>>
    /\ UNCHANGED generator

\* The resolver resumes: throws on an existing user, else builds newUser (at
\* instant `now`) and hands the INSERT to the store.
CreateUserCheck(r, now, keep) ==
    /\ req[r].pc = "cu_selected"
    /\ IF req[r].found
       THEN /\ Respond(Threw(r, DuplicateEmailMessage), keep)
            /\ req' = [req EXCEPT ![r] = Idle]
            /\ UNCHANGED <<nextId, clock>>
       ELSE /\ ReadClock(now)
            /\ req' = [req EXCEPT ![r].pc = "cu_inserting",
                                  ![r].newUser =
                                      NewUser(nextId, req[r].name, req[r].email, now)]
            /\ nextId' = nextId + 1
            /\ UNCHANGED log
    /\ UNCHANGED <<users, messages, rateLimitStore, calls>>
    /\ UNCHANGED generator

\* The store executes the INSERT INTO users. email is UNIQUE (and id the PRIMARY
\* KEY): a violation rejects the statement, and the await rethrows the store's
\* error; otherwise the row is written and the resolver returns newUser.
CreateUserInsert(r, keep) ==
    /\ req[r].pc = "cu_inserting"
    /\ IF InsertUserRejected(req[r].newUser)
       THEN /\ Respond(Threw(r, SqliteConstraintMessage), keep)
            /\ UNCHANGED users
       ELSE /\ users' = UsersAfterInsert(req[r].newUser)
            /\ Respond(Returned(r, req[r].newUser), keep)
    /\ req' = [req EXCEPT ![r] = Idle]
    /\ UNCHANGED <<messages, rateLimitStore, clock, nextId, calls>>
    /\ UNCHANGED generator

\* ----------------------------------------------------------- postMessage
\* postMessage is called and the store executes its SELECT ... WHERE id = ?.
PostMessageCall(r, userId, body) ==
    /\ req[r].pc = "idle"
    /\ req' = [req EXCEPT ![r] =
                 [Idle EXCEPT !.op = "postMessage", !.pc = "pm_selected",
                              !.userId = userId, !.body = body,
                              !.found = FindUserById(userId)]]
    /\ calls' = [calls EXCEPT !.postMessage = @ + 1]
    /\ UNCHANGED <<users, messages, rateLimitStore, clock, nextId, log>>
    /\ UNCHANGED generator

\* The resolver resumes: throws on an unknown user; reads the clock (`now`) and
\* the store, filters, throws on the limit; else builds newMessage and hands
\* the INSERT to the store.
PostMessageCheck(r, now, keep) ==
    /\ req[r].pc = "pm_selected"
    /\ LET oneHourAgo == now - WindowMs
           recentTimestamps == FilterRecent(RateGet(req[r].userId), oneHourAgo)
       IN  IF ~req[r].found
           THEN /\ Respond(Threw(r, UserNotFoundMessage), keep)
                /\ req' = [req EXCEPT ![r] = Idle]
                /\ UNCHANGED <<nextId, clock, rateLimitStore>>
           ELSE IF LimitReached(recentTimestamps)
           THEN /\ ReadClock(now)
                /\ rateLimitStore' = RateAfterDenied(req[r].userId, recentTimestamps, now)
                /\ Respond(Threw(r, RateLimitMessage), keep)
                /\ req' = [req EXCEPT ![r] = Idle]
                /\ UNCHANGED nextId
           ELSE /\ ReadClock(now)
                /\ req' = [req EXCEPT ![r].pc = "pm_inserting",
                                      ![r].now = now,
                                      ![r].recentTimestamps = recentTimestamps,
                                      ![r].newMessage =
                                          NewMessage(nextId, req[r].userId,
                                                     req[r].body, now)]
                /\ nextId' = nextId + 1
                /\ UNCHANGED <<log, rateLimitStore>>
    /\ UNCHANGED <<users, messages, calls>>
    /\ UNCHANGED generator

\* The store executes the INSERT INTO messages.
PostMessageInsert(r) ==
    /\ req[r].pc = "pm_inserting"
    /\ messages' = MessagesAfterInsert(req[r].newMessage)
    /\ req' = [req EXCEPT ![r].pc = "pm_inserted"]
    /\ UNCHANGED <<users, rateLimitStore, clock, nextId, calls, log>>
    /\ UNCHANGED generator

\* The resolver resumes after the INSERT: recentTimestamps.push(now),
\* rateLimitStore.set(userId, recentTimestamps), return newMessage.
PostMessageRecord(r, keep) ==
    /\ req[r].pc = "pm_inserted"
    /\ rateLimitStore' =
           RateSet(req[r].userId, Append(req[r].recentTimestamps, req[r].now))
    /\ Respond(Returned(r, req[r].newMessage), keep)
    /\ req' = [req EXCEPT ![r] = Idle]
    /\ UNCHANGED <<users, messages, clock, nextId, calls>>
    /\ UNCHANGED generator

\* ------------------------------------------------------------- scenarios
Names == {"User One"}
Emails == {"one@example.com", "two@example.com"}
Bodies == {"Message 1", "Message 2"}

\* The identifiers a client can submit: those of persisted users, and one of no user.
KnownIds == { users[i].id : i \in 1..Len(users) }

\* A client that has at most `slots` requests in flight and issues at most
\* `creates` createUser and `posts` postMessage calls with arguments drawn from
\* the given sets, while the clock is read at `instants`; the last `keep`
\* responses are kept.
Step(slots, emails, bodies, ghosts, creates, posts, instants, keep) ==
    \/ \E r \in 1..slots, n \in Names, e \in emails :
          calls.createUser < creates /\ CreateUserCall(r, n, e)
    \/ \E r \in Reqs, now \in instants : CreateUserCheck(r, now, keep)
    \/ \E r \in Reqs : CreateUserInsert(r, keep)
    \/ \E r \in 1..slots, u \in KnownIds \cup ghosts, b \in bodies :
          calls.postMessage < posts /\ PostMessageCall(r, u, b)
    \/ \E r \in Reqs, now \in instants : PostMessageCheck(r, now, keep)
    \/ \E r \in Reqs : PostMessageInsert(r)
    \/ \E r \in Reqs : PostMessageRecord(r, keep)

\* Message objects a caller of the exported resolvers can pass as `message` that
\* are no row of messages: a fresh id, the userId of a persisted user.
UnknownMessages ==
    { NewMessage(nextId, u, b, t) : u \in KnownIds, b \in Bodies, t \in 0..MaxSeqMs }

\* Concurrent requests, MaxCalls calls in all, also for a user that does not
\* exist, all served within the same millisecond.
Next ==
    Step(NumReqs, Emails, Bodies, {0}, MaxCalls - calls.postMessage,
         MaxCalls - calls.createUser, {0}, 1)
Spec == Init /\ [][Next]_vars

\* Requests issued one at a time: each is answered before the next is called.
NextSeq ==
    Step(1, Emails, {"Message 1"}, {}, MaxSeqCreates, MaxSeqPosts, 0..MaxSeqMs,
         MaxSeqCreates + MaxSeqPosts)
SpecSeq == Init /\ [][NextSeq]_vars

\* One user posting one message after another, over more than an hour.
NextRate ==
    Step(1, {"ratelimit@test.com"}, {"Spam"}, {}, 1, MaxRatePosts, Instants,
         1 + MaxRatePosts)
SpecRate == Init /\ [][NextRate]_vars

\* One user posting one message after another until one more post is allowed,
\* and from then on with up to NumReqs requests in flight.
NextRace ==
    Step(IF calls.postMessage < RateLimit - 1 THEN 1 ELSE NumReqs,
         {"ratelimit@test.com"}, {"Spam"}, {}, 1, RateLimit + MaxRacePosts, 0..MaxMs, 0)
SpecRace == Init /\ [][NextRace]_vars

\* The instants at which the repeating client's calls read the clock: the first
\* one, and the last millisecond of its hour and the first one after it.
RetryInstants == {0, WindowMs - 1, WindowMs}

\* One client that issues its calls one at a time and repeats them: createUser
\* for one email and postMessage for an identifier of no user until the first
\* message is persisted, postMessage for the user throughout.
NextRetry ==
    Step(1, {"ratelimit@test.com"}, {"Spam"},
         IF messages = <<>> THEN {0} ELSE {},
         IF messages = <<>> THEN MaxRetryCreates ELSE 0,
         MaxRetryPosts, RetryInstants, MaxRetryKept)
SpecRetry == Init /\ [][NextRetry]_vars

\* The generator script, and the same with every enabled timer callback and
\* promise job eventually run (the event loop runs them all).
SpecGen == Init /\ [][NextGen]_vars
SpecGenLive == Init /\ [][NextGen]_vars /\ WF_vars(NextGen)

\* ---------------------------------------------------------------- claims
\* The response sent last.
LastResponse == log[Len(log)]

\* This step sends the response of request r, which throws `message`.
Throws(r, message) ==
    /\ req'[r] = Idle
    /\ log' # <<>>
    /\ log'[Len(log')] = Threw(r, message)

\* The responses to the postMessage calls made for userId, oldest first.
PostResponses(userId) ==
    SelectSeq(log, LAMBDA e : e.op = "postMessage" /\ e.userId = userId)

\* The instant an ISO string (of 1970-01-01) denotes, in milliseconds.
ParseISOString(d) == d[4] * 3600000 + d[5] * 60000 + d[6] * 1000 + d[7]

\* C1: postMessage calls for one user issued one at a time: the first succeeds,
\* and as long as less than one hour has passed since the first message was
\* created (so that all the calls lie within one hour), each of the first 10
\* succeeds, the 11th fails with the rate-limit message, and once it has failed
\* the user's message list has exactly 10 entries.
C1_EleventhPostRejected ==
    \A u \in KnownIds :
        LET P == PostResponses(u)
        IN  Len(P) >= 1 =>
              /\ P[1].ok
              /\ clock - ParseISOString(P[1].value.creationDate) < WindowMs =>
                    /\ \A k \in 1..Len(P) :
                          /\ k <= 10 => P[k].ok
                          /\ k = 11 => ~P[k].ok /\ P[k].error = RateLimitMessage
                    /\ Len(P) = 11 => Len(ListMessagesForUser(u)) = 10

\* The 11th call of an hour that did not start at the epoch has been rejected.
C1_Witness ==
    \E u \in KnownIds :
        LET P == PostResponses(u)
        IN  /\ Len(P) = 11
            /\ ParseISOString(P[1].value.creationDate) > 0
            /\ clock - ParseISOString(P[1].value.creationDate) < WindowMs
            /\ ~P[11].ok
            /\ Len(ListMessagesForUser(u)) = 10

\* The persisted posts of userId created in the hour that ends at instant t.
PostsInWindow(userId, t) ==
    { i \in 1..Len(messages) :
        /\ messages[i].userId = userId
        /\ ParseISOString(messages[i].creationDate) > t - WindowMs
        /\ ParseISOString(messages[i].creationDate) <= t }

\* C2: whatever the interleaving of concurrent postMessage requests of one user,
\* the check and the record act as one step, so that at no instant the user has
\* more than 10 successful posts in the trailing hour.
C2_AtMostTenPostsPerHour ==
    \A u \in KnownIds :
        \A t \in { x \in Instants \cup (0..MaxMs) : x <= clock } :
            Cardinality(PostsInWindow(u, t)) <= 10

\* C3: a postMessage whose userId matches no persisted user changes neither the
\* users, nor the messages, nor the rate-limit store, in the step that calls
\* it and in the step that answers it, and the answer is the error "User not
\* found. Cannot post message.".
C3_UnknownUserRejected ==
    [][\A r \in Reqs :
          /\ (req[r].pc = "idle" /\ req'[r].op = "postMessage"
                 /\ req'[r].userId \notin KnownIds)
               => /\ users' = users
                  /\ messages' = messages
                  /\ rateLimitStore' = rateLimitStore
          /\ (req[r].op = "postMessage" /\ req[r].userId \notin KnownIds
                 /\ req'[r] # req[r])
               => /\ users' = users
                  /\ messages' = messages
                  /\ rateLimitStore' = rateLimitStore
                  /\ Throws(r, UserNotFoundMessage)]_vars

\* A post for an unknown user was rejected while users, messages and rate-limit
\* entries exist.
C3_Witness ==
    /\ log # <<>>
    /\ LastResponse.op = "postMessage"
    /\ LastResponse.userId \notin KnownIds
    /\ LastResponse.error = UserNotFoundMessage
    /\ messages # <<>>
    /\ DOMAIN rateLimitStore # {}

\* C4: with requests issued one at a time, a createUser whose email a persisted
\* user already has is answered by the error "A user with this email already
\* exists.", and neither the call nor the answer writes a row of users.
C4_DuplicateEmailRejected ==
    [][\A r \in Reqs :
          /\ (req[r].pc = "idle" /\ req'[r].op = "createUser")
               => users' = users
          /\ (req[r].op = "createUser" /\ UserByEmail(req[r].email) # {}
                 /\ req'[r] # req[r])
               => /\ users' = users
                  /\ Throws(r, DuplicateEmailMessage)]_vars

\* A createUser with the email of a persisted user was rejected.
C4_Witness ==
    /\ log # <<>>
    /\ LastResponse.op = "createUser"
    /\ LastResponse.error = DuplicateEmailMessage
    /\ UserByEmail(LastResponse.email) # {}
    /\ Len(users) = 1

\* The rows of messages, as a set.
Rows == { messages[i] : i \in 1..Len(messages) }

\* The rows of the owner of m posted before m, and after m.
Earlier(m) ==
    { x \in Rows : x.userId = m.userId
                   /\ ParseISOString(x.creationDate) < ParseISOString(m.creationDate) }
Later(m) ==
    { x \in Rows : x.userId = m.userId
                   /\ ParseISOString(x.creationDate) > ParseISOString(m.creationDate) }

\* The latest of a set of rows posted at distinct instants; none if it is empty.
Latest(S) ==
    IF S = {} THEN NoMessage
    ELSE CHOOSE x \in S :
           \A y \in S : ParseISOString(y.creationDate) <= ParseISOString(x.creationDate)
Earliest(S) ==
    IF S = {} THEN NoMessage
    ELSE CHOOSE x \in S :
           \A y \in S : ParseISOString(x.creationDate) <= ParseISOString(y.creationDate)

\* The rows of userId were created at pairwise distinct instants.
DistinctInstants(userId) ==
    \A x, y \in Rows :
        (x.userId = userId /\ y.userId = userId /\ x # y)
            => x.creationDate # y.creationDate

\* C5: when the messages of a user carry distinct creation timestamps, the
\* previousPostedMessage of each of them is the one just before it in time (none
\* for the earliest) and its nextPostedMessage the one just after it (none for
\* the latest); both are messages of that user.
C5_PreviousAndNext ==
    \A m \in Rows :
        DistinctInstants(m.userId) =>
            /\ PreviousPostedMessage(m) = { Latest(Earlier(m)) }
            /\ NextPostedMessage(m) = { Earliest(Later(m)) }

\* A user has three messages, the middle one between two others, while another
\* user exists.
C5_Witness ==
    \E m \in Rows :
        /\ DistinctInstants(m.userId)
        /\ Earlier(m) # {}
        /\ Later(m) # {}
        /\ Len(users) = 2

\* C6: no two persisted users have the same email, also when createUser
\* requests with the same email ran their existence checks before either
\* inserted.
C6_EmailsUnique ==
    \A i, j \in 1..Len(users) : i # j => users[i].email # users[j].email

\* Of two createUser requests that both passed the existence check with the
\* same email, one wrote its row and the store refused the other's.
C6_Witness ==
    /\ log # <<>>
    /\ LastResponse.op = "createUser"
    /\ ~LastResponse.ok
    /\ LastResponse.error # DuplicateEmailMessage
    /\ Cardinality(UserByEmail(LastResponse.email)) = 1

\* C7: every createUser call either returns a new user with the name and the
\* email it was given, or fails with "A user with this email already exists.".
C7_CreateUserOutcomes ==
    \A i \in 1..Len(log) :
        log[i].op = "createUser" =>
            \/ /\ log[i].ok
               /\ log[i].value.name = log[i].name
               /\ log[i].value.email = log[i].email
            \/ /\ ~log[i].ok
               /\ log[i].error = DuplicateEmailMessage

\* This step is one of request r, a postMessage.
PostStep(r) == req[r].op = "postMessage" /\ req'[r] # req[r]

\* C8: a postMessage changes no row of users; it changes the messages in one
\* step only, which appends one row with the caller's userId and body and
\* leaves the rows before it as they were; it changes the rate-limit store in one
\* step only, its last, and there only the caller's sequence; and what it then
\* returns is the row it appended.
C8_PostMessageFrame ==
    [][\A r \in Reqs :
          /\ (req[r].pc = "idle" /\ req'[r].op = "postMessage")
               => /\ req'[r].pc = "pm_selected"
                  /\ UNCHANGED <<users, messages, rateLimitStore>>
          /\ (PostStep(r) /\ req[r].pc = "pm_selected")
               => /\ req'[r].pc \in {"idle", "pm_inserting"}
                  /\ UNCHANGED <<users, messages, rateLimitStore>>
          /\ (PostStep(r) /\ req[r].pc = "pm_inserting")
               => /\ req'[r].pc = "pm_inserted"
                  /\ Len(messages') = Len(messages) + 1
                  /\ SubSeq(messages', 1, Len(messages)) = messages
                  /\ messages'[Len(messages')].userId = req[r].userId
                  /\ messages'[Len(messages')].body = req[r].body
                  /\ \A i \in 1..Len(messages) :
                        messages[i].id # messages'[Len(messages')].id
                  /\ UNCHANGED <<users, rateLimitStore>>
          /\ (PostStep(r) /\ req[r].pc = "pm_inserted")
               => /\ req'[r].pc = "idle"
                  /\ UNCHANGED <<users, messages>>
                  /\ \A k \in (DOMAIN rateLimitStore) \cup (DOMAIN rateLimitStore') :
                        k # req[r].userId =>
                            /\ k \in DOMAIN rateLimitStore
                            /\ k \in DOMAIN rateLimitStore'
                            /\ rateLimitStore'[k] = rateLimitStore[k]
                  /\ log' # <<>>
                  /\ log'[Len(log')].ok
                  /\ log'[Len(log')].value.userId = req[r].userId
                  /\ log'[Len(log')].value.body = req[r].body
                  /\ \E i \in 1..Len(messages) :
                        messages[i] = log'[Len(log')].value]_vars

\* A postMessage returned its row while another user has a rate-limit entry.
C8_Witness ==
    /\ log # <<>>
    /\ LastResponse.op = "postMessage"
    /\ LastResponse.ok
    /\ LastResponse.value \in Rows
    /\ \E k \in DOMAIN rateLimitStore : k # LastResponse.userId

\* The recorded timestamps of userId that lie strictly inside the hour ending now.
InsideWindow(userId, now) ==
    LET ts == IF userId \in DOMAIN rateLimitStore THEN rateLimitStore[userId] ELSE <<>>
    IN  { i \in 1..Len(ts) : ts[i] > now - WindowMs }

\* C9: a postMessage of a persisted user evaluated at instant now is admitted
\* exactly when fewer than 10 of the user's recorded timestamps are greater than
\* now - 1 hour, and is otherwise rejected with the rate-limit message; the
\* sequence an admitted call stores holds no timestamp that is an hour old or
\* older at its evaluation instant.
C9_SlidingWindow ==
    [][\A r \in Reqs :
          /\ (PostStep(r) /\ req[r].pc = "pm_selected" /\ req[r].userId \in KnownIds)
               => IF Cardinality(InsideWindow(req[r].userId, clock')) < 10
                  THEN req'[r].pc = "pm_inserting"
                  ELSE Throws(r, RateLimitMessage)
          /\ (PostStep(r) /\ req[r].pc = "pm_inserted")
               => LET ts == rateLimitStore'[req[r].userId]
                  IN  \A i \in 1..Len(ts) : ts[i] > req[r].now - WindowMs]_vars

\* A user rejected with 10 posts in the window posts again exactly one hour
\* after the first post, and is admitted.
C9_Witness ==
    \E u \in KnownIds :
        LET P == PostResponses(u)
        IN  \E i, j \in 1..Len(P) :
                /\ i < j
                /\ ~P[i].ok
                /\ P[j].ok
                /\ ParseISOString(P[j].value.creationDate)
                      = ParseISOString(P[1].value.creationDate) + WindowMs
                /\ \A ts \in { rateLimitStore[u][k] : k \in 1..Len(rateLimitStore[u]) } :
                      ts > ParseISOString(P[1].value.creationDate)

\* The users returned by the createUser calls so far, in the order they returned.
CreatedUsers ==
    LET C == SelectSeq(log, LAMBDA e : e.op = "createUser" /\ e.ok)
    IN  [ i \in 1..Len(C) |-> C[i].value ]

\* C10: with createUser calls issued one at a time from an empty store,
\* listUsers returns exactly the users created, in the order of their creation.
C10_ListUsersInCreationOrder == ListUsers = CreatedUsers

\* Two users with distinct emails were created.
C10_Witness ==
    /\ Len(CreatedUsers) = 2
    /\ CreatedUsers[1].email # CreatedUsers[2].email
    /\ Len(ListUsers) = 2

\* The call of request q has the operation and the arguments of the call that
\* response e answered.
SameCall(e, q) ==
    /\ e.op = q.op
    /\ e.name = q.name
    /\ e.email = q.email
    /\ e.userId = q.userId
    /\ e.body = q.body

\* This step sends the response of request r.
Answers(r) == req[r].pc # "idle" /\ req'[r] = Idle

\* The persisted posts of the user of request r, other than the one r itself
\* wrote, that lie inside the hour ending at instant t.
CountedPosts(r, t) ==
    { i \in PostsInWindow(req[r].userId, t) : messages[i] # req[r].newMessage }

\* C11: with calls issued one at a time, the step that calls a resolver and the
\* step in which a call fails leave users, messages and the rate-limit store as
\* they are, and a call that repeats the failed call answered just before it
\* fails with the same message (for a call that failed on the rate limit: when
\* 10 messages of the user are still inside the hour that ends when the repeat
\* is evaluated); so the three are the same before the failure and after the
\* repeat.
C11_FailedCallRepeats ==
    [][\A r \in Reqs :
          /\ (req[r].pc = "idle" /\ req'[r].pc # "idle")
               => UNCHANGED <<users, messages, rateLimitStore>>
          /\ (Answers(r) /\ ~log'[Len(log')].ok)
               => UNCHANGED <<users, messages, rateLimitStore>>
          /\ (/\ Answers(r)
              /\ log # <<>>
              /\ ~LastResponse.ok
              /\ SameCall(LastResponse, req[r])
              /\ LastResponse.error = RateLimitMessage
                    => Cardinality(CountedPosts(r, clock')) >= 10)
               => Throws(r, LastResponse.error)]_vars

\* The responses at i and i + 1 answer the same call and both carry `message`.
FailedTwice(i, message) ==
    /\ ~log[i].ok
    /\ ~log[i + 1].ok
    /\ log[i].error = message
    /\ log[i + 1] = log[i]

\* A postMessage beyond the limit was repeated in the last millisecond of the
\* hour of the 10 posts it counts, by a client that had repeated a createUser
\* before, and failed the same way.
C11_Witness ==
    /\ Len(log) = 2
    /\ FailedTwice(1, RateLimitMessage)
    /\ clock = WindowMs - 1
    /\ \A i \in 1..Len(messages) : ParseISOString(messages[i].creationDate) = 0
    /\ calls.createUser = 3

\* C12: with calls issued one at a time, the step in which a postMessage is
\* denied by the rate limiter leaves the rate-limit store as it is, and a
\* postMessage of a persisted user evaluated when fewer than 10 of the user's
\* messages lie inside the trailing hour is admitted, however many attempts were
\* denied before.
C12_DeniedPostNotRecorded ==
    [][\A r \in Reqs :
          /\ (Answers(r) /\ log'[Len(log')].error = RateLimitMessage)
               => UNCHANGED rateLimitStore
          /\ (/\ PostStep(r)
              /\ req[r].pc = "pm_selected"
              /\ req[r].userId \in KnownIds
              /\ Cardinality(PostsInWindow(req[r].userId, clock')) < 10)
               => req'[r].pc = "pm_inserting"]_vars

\* A post was denied at an instant later than every post the store holds for
\* the user: the store holds the 10 of them and not the instant of the denial.
C12_Witness ==
    /\ log # <<>>
    /\ LastResponse.error = RateLimitMessage
    /\ LastResponse.userId \in DOMAIN rateLimitStore
    /\ Len(rateLimitStore[LastResponse.userId]) = 10
    /\ \A i \in 1..10 : rateLimitStore[LastResponse.userId][i] < clock

\* The persisted posts of userId inside the hour ending at instant t whose
\* postMessage has returned: no request in flight holds them as its newMessage.
ReturnedPostsInWindow(userId, t) ==
    { i \in PostsInWindow(userId, t) :
        \A r \in Reqs : req[r].newMessage # messages[i] }

\* C13: under any interleaving of postMessage requests, the timestamps stored
\* for a user that lie inside the trailing hour are as many as the user's posts
\* of that hour that returned: no request's rateLimitStore.set drops a timestamp
\* that another request recorded.
C13_NoRecordedPostLost ==
    \A u \in KnownIds :
        Cardinality(InsideWindow(u, clock))
            = Cardinality(ReturnedPostsInWindow(u, clock))

\* C14: in every state, of two rows of messages of the same user the one
\* inserted later has no earlier creationDate, also with several postMessage
\* requests of that user in flight.
C14_CreationDatesFollowInsertion ==
    \A i, j \in 1..Len(messages) :
        (i < j /\ messages[i].userId = messages[j].userId)
            => ParseISOString(messages[i].creationDate)
                   <= ParseISOString(messages[j].creationDate)

\* C15: in every state, under any interleaving of createUser and postMessage
\* requests, the userId of every row of messages is the id of a row of users.
C15_MessagesHaveOwners ==
    \A i \in 1..Len(messages) : messages[i].userId \in KnownIds

\* Two users are persisted, one of them owns a message, and a postMessage for an
\* identifier of no user was the last call answered.
C15_Witness ==
    /\ Len(users) = 2
    /\ messages # <<>>
    /\ log # <<>>
    /\ LastResponse.op = "postMessage"
    /\ LastResponse.userId \notin KnownIds

\* C16: in every state, under any interleaving of requests, the sequence the
\* rate-limit store holds for a user has at most 10 timestamps, and the store
\* has an entry only for a user with at least one row in messages.
C16_RateEntriesBounded ==
    \A u \in DOMAIN rateLimitStore :
        /\ Len(rateLimitStore[u]) <= 10
        /\ ListMessagesForUser(u) # <<>>

\* After requests of one user raced, the store holds 10 timestamps for the user
\* while 11 of the user's messages are persisted and no request is in flight.
C16_Witness ==
    \E u \in DOMAIN rateLimitStore :
        /\ Len(rateLimitStore[u]) = 10
        /\ Len(ListMessagesForUser(u)) = 11
        /\ \A r \in Reqs : req[r] = Idle

\* The previous/next links of the messages A and B, of which A is given to
\* nextPostedMessage and B to previousPostedMessage, agree; A is not its own
\* previous or next.
LinksAgree(A, B) ==
    /\ (NextPostedMessage(A) = {B}) <=> (PreviousPostedMessage(B) = {A})
    /\ A \notin NextPostedMessage(A)
    /\ A \notin PreviousPostedMessage(A)

\* C17: for messages A and B of the same user with distinct creation
\* timestamps (the user's rows having distinct timestamps, so that ORDER BY
\* fixes their order), nextPostedMessage(A) is B exactly when
\* previousPostedMessage(B) is A, and no message is its own previous or next;
\* A and B are rows of messages, or message objects whose id the user's list
\* does not contain.
C17_LinksConsistent ==
    \A A, B \in Rows \cup UnknownMessages :
        (/\ A.userId = B.userId
         /\ A.creationDate # B.creationDate
         /\ DistinctInstants(A.userId))
            => LinksAgree(A, B)

\* The promises of `promises` that have the given status.
Settled(status) == { i \in 1..NumPromises : promises[i].status = status }

\* How often the script has logged its numbers.
LogCount == Len(SelectSeq(console, LAMBDA l : l.text = "Generated Numbers:"))

\* C18: in the generator script, in whatever order the promises settle, once
\* anything is written to the console every promise has settled, every
\* fulfilled one has its value in results and every rejected one its reason in
\* errors, exactly once, so that results.length + errors.length is the number
\* of promises; the numbers logged are those values in ascending order, and
\* the count assertion has written nothing.
C18_LoggedAfterAllSettled ==
    console # <<>> =>
        /\ Settled("pending") = {}
        /\ Len(results) + Len(errors) = NumPromises
        /\ Len(results) = Cardinality(Settled("fulfilled"))
        /\ Len(errors) = Cardinality(Settled("rejected"))
        /\ Cardinality(Settled("fulfilled")) + Cardinality(Settled("rejected"))
              = Len(promises)
        /\ results = SortAscending(Values(promises))
        /\ console = <<Line("Generated Numbers:", results, 0),
                       Line("Failed Attempts:", <<>>, Len(errors))>>

\* The script has logged two different numbers and one failure.
C18_Witness ==
    /\ LogCount = 1
    /\ Len(errors) = 1
    /\ Len(results) >= 2
    /\ results[1] < results[2]

\* C19: every promise of getRandomInteger eventually settles and stays as it
\* settled, fulfilled with a value or rejected with "not enough entropy"; and
\* whichever promises are rejected, the script eventually logs its numbers, and
\* never logs them a second time.
C19_SettlesAndLogsOnce ==
    /\ <>[](Settled("pending") = {})
    /\ [][\A i \in 1..NumPromises :
             promises[i].status # "pending" => promises'[i] = promises[i]]_vars
    /\ [](\A i \in 1..NumPromises :
             /\ promises[i].status \in {"pending", "fulfilled", "rejected"}
             /\ promises[i].status = "rejected"
                   => promises[i].reason = "not enough entropy")
    /\ <>[](LogCount = 1)
    /\ [](LogCount <= 1)

\* The first promise was rejected and every other one fulfilled, and the
\* script has logged the others' numbers and has nothing left to run.
C19_Witness ==
    /\ promises[1].status = "rejected"
    /\ \A i \in 2..NumPromises : promises[i].status = "fulfilled"
    /\ LogCount = 1
    /\ Len(results) = NumPromises - 1
    /\ timers = {}
    /\ microtasks = <<>>

====
